---- MODULE Spec2Model ----
(***************************************************************************)
(* The derivation pipeline driver (crates/derive/src/pipeline/core.rs) and *)
(* the cached JSON-RPC chain providers                                     *)
(* (crates/derive/src/online/alloy_providers.rs).                          *)
(*                                                                         *)
(* Every handler is one action.  Each action leaves in `last` a record of  *)
(* the call that was just made: its name, its arguments, its result, the   *)
(* external calls it issued (stage stack, RPC transport, metrics), and the *)
(* state it started from.                                                  *)
(***************************************************************************)
EXTENDS Integers, Sequences, FiniteSets, TLC

\* ------------------------------------------------------------------ bounds

\* Attribute sets the stage stack hands out in one run.
MaxProduced == 2
\* Highest L1 origin the stage stack reaches.
MaxOrigin == 1
\* Highest block number the providers' client fetches.
MaxBlock == 19
\* Most hint frames the client program writes.
MaxFrames == 3

\* ------------------------------------------------------- program constants

\* alloy_providers.rs: const CACHE_SIZE: usize = 16;
CACHE_SIZE == 16

\* --------------------------------------------------------------- variables

VARIABLES
    prepared,                       \* DerivationPipeline.prepared (front = head)
    attributes,                     \* DerivationPipeline.attributes: the stage stack
    rollup_config,                  \* DerivationPipeline.rollup_config
    payload_by_number_cache,        \* AlloyL2ChainProvider caches, LRU entry first
    l2_block_info_by_number_cache,
    system_config_by_number_cache,
    header_by_hash_cache,           \* AlloyChainProvider caches, LRU entry first
    block_info_by_number_cache,
    receipts_by_hash_cache,
    block_info_and_transactions_by_hash_cache,
    head,                           \* the client: the block it is fetching
    done,                           \* the client: methods asked for that block
    back,                           \* the client: the older block it re-reads next
    watch,                          \* the client: the header it will ask for again
    host,                           \* the host process: configuration, tasks, result
    hint_channel,                   \* the hint channel between client and server
    produced,                       \* history: what next_attributes returned Ok
    consumed,                       \* history: what next returned Some
    recovery,                       \* history: "failed" since a step failed,
                                    \* "reset" once a reset succeeded after it
    last                            \* the call just made

l2_chain_provider ==
    <<payload_by_number_cache, l2_block_info_by_number_cache,
      system_config_by_number_cache>>

chain_provider ==
    <<header_by_hash_cache, block_info_by_number_cache,
      receipts_by_hash_cache, block_info_and_transactions_by_hash_cache>>

pipeline == <<prepared, attributes, rollup_config, produced, consumed, recovery>>

client == <<head, done, back, watch>>

host_side == <<host, hint_channel>>

vars ==
    <<pipeline, l2_chain_provider, chain_provider, client, last, host_side>>

\* ------------------------------------------------------------------ values

Attrs == {"attrsA", "attrsB"}
RollupConfigs == {"cfgA", "cfgB"}
\* The rollup config the pipeline is built with.
PipelineConfig == "cfgA"
L1Origins == 0..MaxOrigin

\* StageError: Eof and the others.
OtherStageErrors == {"NotEnoughData", "Critical"}
StageErrors == {"Eof"} \cup OtherStageErrors

NoVal == [none |-> TRUE]
Ok(v) == [ok |-> TRUE, val |-> v, err |-> "none"]
Err(e) == [ok |-> FALSE, val |-> NoVal, err |-> e]

Some(a) == [some |-> TRUE, val |-> a]
None == [some |-> FALSE, val |-> "none"]

\* An external call made by a handler, in the order made.
Call(fn, arg, ret) == [fn |-> fn, arg |-> arg, ret |-> ret]

\* The hash of block n (of its header: Header::hash_slow).
Hash(n) == 100 + n

\* BlockInfo { hash, number, parent_hash, timestamp } of block n.
BlockInfo(n) ==
    [hash |-> Hash(n), number |-> n, parent_hash |-> Hash(n) - 1,
     timestamp |-> n]

\* ------------------------------------------------------------ lru::LruCache
\* A cache is a sequence of entries [k, v], least recently used first.

LruKeys(c) == {c[i].k : i \in 1..Len(c)}

LruContains(c, k) == k \in LruKeys(c)

LruIndex(c, k) == CHOOSE i \in 1..Len(c) : c[i].k = k

LruPeek(c, k) == c[LruIndex(c, k)].v

LruRemove(c, k) == SelectSeq(c, LAMBDA e : e.k # k)

\* get(&k): a hit moves the entry to the most-recently-used end.
LruGet(c, k) ==
    IF LruContains(c, k)
    THEN Append(LruRemove(c, k), [k |-> k, v |-> LruPeek(c, k)])
    ELSE c

\* A put that, at capacity, drops the most recently used entry.
LruPutDropsNewest(c, k, v) ==
    IF LruContains(c, k)
    THEN Append(LruRemove(c, k), [k |-> k, v |-> v])
    ELSE IF Len(c) >= CACHE_SIZE
         THEN Append(SubSeq(c, 1, Len(c) - 1), [k |-> k, v |-> v])
         ELSE Append(c, [k |-> k, v |-> v])

\* A put that never drops an entry.
LruPutUnbounded(c, k, v) ==
    Append(LruRemove(c, k), [k |-> k, v |-> v])

\* put(k, v): replaces the value of a present key; otherwise, at capacity,
\* the least recently used entry is dropped first.
LruPut(c, k, v) ==
    IF LruContains(c, k)
    THEN Append(LruRemove(c, k), [k |-> k, v |-> v])
    ELSE IF Len(c) >= CACHE_SIZE
         THEN Append(Tail(c), [k |-> k, v |-> v])
         ELSE Append(c, [k |-> k, v |-> v])

\* ------------------------------------------------- the L2 node behind the RPC
\* The remote node answers each request with a fixed value.  Block numbers in
\* L2Down are not served (transport error), those in L2Garbled come back as
\* bytes that are no RLP block, those in L2NoL1Info decode to a block from
\* which no system config / L2 block ref can be derived.

L2Down == {0}
L2Garbled == {1}
L2NoL1Info == {2}
L2Served == {3}
L2Numbers == L2Down \cup L2Garbled \cup L2NoL1Info \cup L2Served

\* inner.raw_request("debug_getRawBlock", [U64::from(number)])
L2RawBlock(number) ==
    IF number \in L2Down
    THEN Err("transport")
    ELSE Ok([block |-> number, rlp |-> number \notin L2Garbled])

\* OpBlock::decode(&mut raw_block.as_ref())
OpBlockDecode(bytes) ==
    IF bytes.rlp THEN Ok([number |-> bytes.block]) ELSE Err("rlp")

\* L2ExecutionPayloadEnvelope::from(block)
PayloadEnvelope(block) == [number |-> block.number]

\* L2ExecutionPayloadEnvelope::to_system_config(&rollup_config)
ToSystemConfig(envelope, cfg) ==
    IF envelope.number \in L2NoL1Info
    THEN Err("no_l1_info")
    ELSE Ok([number |-> envelope.number, cfg |-> cfg])

\* L2ExecutionPayloadEnvelope::to_l2_block_ref(&rollup_config)
ToL2BlockRef(envelope, cfg) ==
    IF envelope.number \in L2NoL1Info
    THEN Err("no_l1_info")
    ELSE Ok([number |-> envelope.number, seq |-> 0, cfg |-> cfg])

\* ------------------------------------------------------ AlloyL2ChainProvider
\* A provider method yields: ret, the Result returned; the caches as the call
\* leaves them; rpcs, the requests sent to the node; errs, the PROVIDER_ERRORS
\* label sets incremented.

\* AlloyL2ChainProvider::payload_by_number, on the payload cache pc.
PayloadByNumber(pc, number) ==
    IF LruContains(pc, number)
    THEN [ret |-> Ok(LruPeek(pc, number)), pc |-> LruGet(pc, number),
          rpcs |-> <<>>, errs |-> <<>>]
    ELSE LET raw_block == L2RawBlock(number)
             rpc == Call("debug_getRawBlock", number, raw_block)
         IN  IF ~raw_block.ok
             THEN [ret |-> raw_block, pc |-> pc, rpcs |-> <<rpc>>,
                   errs |-> <<<<"l2_chain_provider", "payload_by_number",
                                "debug_getRawBlock">>>>]
             ELSE LET block == OpBlockDecode(raw_block.val)
                  IN  IF ~block.ok
                      THEN [ret |-> block, pc |-> pc, rpcs |-> <<rpc>>,
                            errs |-> <<<<"l2_chain_provider",
                                         "payload_by_number", "decode">>>>]
                      ELSE LET payload_envelope == PayloadEnvelope(block.val)
                           IN  [ret |-> Ok(payload_envelope),
                                pc |-> LruPut(pc, number, payload_envelope),
                                rpcs |-> <<rpc>>, errs |-> <<>>]

\* A hit that takes the entry out of the cache (pop in place of get).
SystemConfigCachePop(sc, number) ==
    [val |-> LruPeek(sc, number), sc |-> LruRemove(sc, number)]

\* The entry a hit on the system config cache returns and how it leaves the
\* cache: `get` promotes the entry.
SystemConfigCacheHit(sc, number) ==
    [val |-> LruPeek(sc, number), sc |-> LruGet(sc, number)]

\* AlloyL2ChainProvider::system_config_by_number, on the payload cache pc and
\* the system config cache sc.
SystemConfigByNumber(pc, sc, number, cfg) ==
    IF LruContains(sc, number)
    THEN LET hit == SystemConfigCacheHit(sc, number)
         IN  [ret |-> Ok(hit.val), pc |-> pc, sc |-> hit.sc,
              rpcs |-> <<>>, errs |-> <<>>]
    ELSE LET p == PayloadByNumber(pc, number)
         IN  IF ~p.ret.ok
             THEN [ret |-> p.ret, pc |-> p.pc, sc |-> sc, rpcs |-> p.rpcs,
                   errs |-> p.errs \o
                       <<<<"l2_chain_provider", "system_config_by_number",
                           "payload_by_number">>>>]
             ELSE LET sys_config == ToSystemConfig(p.ret.val, cfg)
                  IN  IF ~sys_config.ok
                      THEN [ret |-> sys_config, pc |-> p.pc, sc |-> sc,
                            rpcs |-> p.rpcs,
                            errs |-> <<<<"l2_chain_provider",
                                         "system_config_by_number",
                                         "to_system_config">>>>]
                      ELSE [ret |-> sys_config, pc |-> p.pc,
                            sc |-> LruPut(sc, number, sys_config.val),
                            rpcs |-> p.rpcs, errs |-> <<>>]

\* The rollup config AlloyL2ChainProvider::new was given.
ProviderConfig == "cfgA"

\* l2_block_info_by_number fetching its block from the node itself, past the
\* payload cache.
L2BlockInfoByNumberDirect(pc, ic, number) ==
    IF LruContains(ic, number)
    THEN [ret |-> Ok(LruPeek(ic, number)), pc |-> pc,
          ic |-> LruGet(ic, number), rpcs |-> <<>>, errs |-> <<>>]
    ELSE LET p == PayloadByNumber(<<>>, number)
         IN  IF ~p.ret.ok
             THEN [ret |-> p.ret, pc |-> pc, ic |-> ic, rpcs |-> p.rpcs,
                   errs |-> p.errs \o
                       <<<<"l2_chain_provider", "l2_block_info_by_number",
                           "payload_by_number">>>>]
             ELSE LET l2_block_info == ToL2BlockRef(p.ret.val, ProviderConfig)
                  IN  IF ~l2_block_info.ok
                      THEN [ret |-> l2_block_info, pc |-> pc, ic |-> ic,
                            rpcs |-> p.rpcs,
                            errs |-> <<<<"l2_chain_provider",
                                         "l2_block_info_by_number",
                                         "to_l2_block_ref">>>>]
                      ELSE [ret |-> l2_block_info, pc |-> pc,
                            ic |-> LruPut(ic, number, l2_block_info.val),
                            rpcs |-> p.rpcs, errs |-> <<>>]

\* AlloyL2ChainProvider::l2_block_info_by_number, on the payload cache pc and
\* the L2 block info cache ic.
L2BlockInfoByNumber(pc, ic, number) ==
    IF LruContains(ic, number)
    THEN [ret |-> Ok(LruPeek(ic, number)), pc |-> pc,
          ic |-> LruGet(ic, number), rpcs |-> <<>>, errs |-> <<>>]
    ELSE LET p == PayloadByNumber(pc, number)
         IN  IF ~p.ret.ok
             THEN [ret |-> p.ret, pc |-> p.pc, ic |-> ic, rpcs |-> p.rpcs,
                   errs |-> p.errs \o
                       <<<<"l2_chain_provider", "l2_block_info_by_number",
                           "payload_by_number">>>>]
             ELSE LET l2_block_info == ToL2BlockRef(p.ret.val, ProviderConfig)
                  IN  IF ~l2_block_info.ok
                      THEN [ret |-> l2_block_info, pc |-> p.pc, ic |-> ic,
                            rpcs |-> p.rpcs,
                            errs |-> <<<<"l2_chain_provider",
                                         "l2_block_info_by_number",
                                         "to_l2_block_ref">>>>]
                      ELSE [ret |-> l2_block_info, pc |-> p.pc,
                            ic |-> LruPut(ic, number, l2_block_info.val),
                            rpcs |-> p.rpcs, errs |-> <<>>]

\* ------------------------------------------------- the L1 node behind the RPC
\* As for L2: blocks in L1Down are not served, those in L1Garbled come back as
\* bytes that do not decode.  A request names a block by number or by hash.

L1Down == {0}
L1Garbled == {1}
L1Served == {2}
L1Numbers == L1Down \cup L1Garbled \cup L1Served

\* inner.raw_request("debug_getRawHeader", [hash]) / [U64::from(number)]
L1RawHeader(n) ==
    IF n \in L1Down THEN Err("transport")
    ELSE Ok([block |-> n, rlp |-> n \notin L1Garbled])

\* Header::decode(&mut raw_header.as_ref())
HeaderDecode(bytes) ==
    IF bytes.rlp
    THEN Ok([number |-> bytes.block, parent_hash |-> Hash(bytes.block) - 1,
             timestamp |-> bytes.block])
    ELSE Err("rlp")

\* Header::hash_slow
HashSlow(header) == Hash(header.number)

\* inner.raw_request("debug_getRawBlock", [hash])
L1RawBlock(n) ==
    IF n \in L1Down THEN Err("transport")
    ELSE Ok([block |-> n, rlp |-> n \notin L1Garbled])

\* Block::decode(&mut raw_block.as_ref())
BlockDecode(bytes) ==
    IF bytes.rlp
    THEN Ok([header |-> [number |-> bytes.block,
                         parent_hash |-> Hash(bytes.block) - 1,
                         timestamp |-> bytes.block],
             body |-> <<[tx |-> bytes.block]>>])
    ELSE Err("rlp")

\* rlp(ReceiptWithBloom) of receipt id, as bytes: a list header (0xc1, a list
\* with one byte of payload) and the payload.
EncodedReceipt(id) == <<193, id>>

\* The receipts of L1 block n, in the block's order: up to three of them,
\* each typed (EIP-2718, transaction type 0x00..0x03) or legacy.
L1Receipts(n) ==
    [i \in 1..(n % 4) |->
        LET t == (n + i) % 5
        IN  [typed |-> t < 4, type |-> t % 4, id |-> n + i]]

\* A receipt as the node returns it: rlp(ReceiptWithBloom), behind the
\* transaction type byte if the receipt is typed.
Encode2718(r) ==
    IF r.typed THEN <<r.type>> \o EncodedReceipt(r.id)
    ELSE EncodedReceipt(r.id)

\* inner.raw_request("debug_getRawReceipts", [hash]): the encoded receipts of
\* block n; a garbled block has, between two receipts, an item with a type byte
\* above 0x03.
L1RawReceipts(n) ==
    IF n \in L1Down THEN Err("transport")
    ELSE IF n \in L1Garbled
    THEN Ok(<<Encode2718([typed |-> TRUE, type |-> 1, id |-> n]),
              <<4>> \o EncodedReceipt(n),
              Encode2718([typed |-> FALSE, type |-> 0, id |-> n])>>)
    ELSE Ok([i \in DOMAIN L1Receipts(n) |-> Encode2718(L1Receipts(n)[i])])

\* ReceiptWithBloom::decode(r)
ReceiptWithBloomDecode(r) ==
    IF Len(r) = 2 /\ r[1] = 193
    THEN Ok([receipt |-> [id |-> r[2]], bloom |-> 0])
    ELSE Err("rlp")

\* TxType::Eip4844 as u8
Eip4844 == 3

\* The closure with the type test off by one: a type byte 0x03 is not skipped.
DecodeRawReceiptBelow(raw) ==
    LET r == IF raw # <<>> /\ raw[1] < Eip4844 THEN Tail(raw) ELSE raw
        d == ReceiptWithBloomDecode(r)
    IN  IF d.ok THEN Ok(d.val.receipt) ELSE d

\* The closure of receipts_by_hash on one raw receipt: skip the transaction
\* type byte if it exists, decode the rest, keep the receipt.
DecodeRawReceipt(raw) ==
    LET r == IF raw # <<>> /\ raw[1] <= Eip4844 THEN Tail(raw) ELSE raw
        d == ReceiptWithBloomDecode(r)
    IN  IF d.ok THEN Ok(d.val.receipt) ELSE d

\* .collect::<Result<Vec<_>>>(): the receipts in order, or the first error.
RECURSIVE CollectReceipts(_)
CollectReceipts(raws) ==
    IF raws = <<>> THEN Ok(<<>>)
    ELSE LET d == DecodeRawReceipt(Head(raws))
         IN  IF ~d.ok THEN d
             ELSE LET rest == CollectReceipts(Tail(raws))
                  IN  IF ~rest.ok THEN rest
                      ELSE Ok(<<d.val>> \o rest.val)

\* The block a hash names, for the node.
BlockOfHash(hash) == hash - 100

\* -------------------------------------------------------- AlloyChainProvider
\* ret, rpcs and errs as for the L2 provider; cache, the method's own cache as
\* the call leaves it.

\* header_by_hash counting a header that does not decode under both phases.
HeaderByHashCountsBoth(cache, hash) ==
    IF LruContains(cache, hash)
    THEN [ret |-> Ok(LruPeek(cache, hash)), cache |-> LruGet(cache, hash),
          rpcs |-> <<>>, errs |-> <<>>]
    ELSE LET raw_header == L1RawHeader(BlockOfHash(hash))
             rpc == Call("debug_getRawHeader", hash, raw_header)
         IN  IF ~raw_header.ok
             THEN [ret |-> raw_header, cache |-> cache, rpcs |-> <<rpc>>,
                   errs |-> <<<<"chain_provider", "header_by_hash",
                                "debug_getRawHeader">>>>]
             ELSE LET header == HeaderDecode(raw_header.val)
                  IN  IF ~header.ok
                      THEN [ret |-> header, cache |-> cache, rpcs |-> <<rpc>>,
                            errs |-> <<<<"chain_provider", "header_by_hash",
                                         "debug_getRawHeader">>,
                                       <<"chain_provider", "header_by_hash",
                                         "decode">>>>]
                      ELSE [ret |-> header,
                            cache |-> LruPut(cache, hash, header.val),
                            rpcs |-> <<rpc>>, errs |-> <<>>]

\* AlloyChainProvider::header_by_hash
HeaderByHash(cache, hash) ==
    IF LruContains(cache, hash)
    THEN [ret |-> Ok(LruPeek(cache, hash)), cache |-> LruGet(cache, hash),
          rpcs |-> <<>>, errs |-> <<>>]
    ELSE LET raw_header == L1RawHeader(BlockOfHash(hash))
             rpc == Call("debug_getRawHeader", hash, raw_header)
         IN  IF ~raw_header.ok
             THEN [ret |-> raw_header, cache |-> cache, rpcs |-> <<rpc>>,
                   errs |-> <<<<"chain_provider", "header_by_hash",
                                "debug_getRawHeader">>>>]
             ELSE LET header == HeaderDecode(raw_header.val)
                  IN  IF ~header.ok
                      THEN [ret |-> header, cache |-> cache, rpcs |-> <<rpc>>,
                            errs |-> <<<<"chain_provider", "header_by_hash",
                                         "decode">>>>]
                      ELSE [ret |-> header,
                            cache |-> LruPut(cache, hash, header.val),
                            rpcs |-> <<rpc>>, errs |-> <<>>]

\* block_info_by_number keeping a value for a header that did not decode.
BlockInfoByNumberKeepsFailure(cache, number) ==
    IF LruContains(cache, number)
    THEN [ret |-> Ok(LruPeek(cache, number)), cache |-> LruGet(cache, number),
          rpcs |-> <<>>, errs |-> <<>>]
    ELSE LET raw_header == L1RawHeader(number)
             rpc == Call("debug_getRawHeader", number, raw_header)
         IN  IF ~raw_header.ok
             THEN [ret |-> raw_header, cache |-> cache, rpcs |-> <<rpc>>,
                   errs |-> <<<<"chain_provider", "block_info_by_number",
                                "debug_getRawHeader">>>>]
             ELSE LET header == HeaderDecode(raw_header.val)
                  IN  IF ~header.ok
                      THEN [ret |-> header,
                            cache |-> LruPut(cache, number,
                                             [hash |-> 0, number |-> number,
                                              parent_hash |-> 0,
                                              timestamp |-> 0]),
                            rpcs |-> <<rpc>>,
                            errs |-> <<<<"chain_provider",
                                         "block_info_by_number", "decode">>>>]
                      ELSE LET block_info ==
                                   [hash |-> HashSlow(header.val),
                                    number |-> number,
                                    parent_hash |-> header.val.parent_hash,
                                    timestamp |-> header.val.timestamp]
                           IN  [ret |-> Ok(block_info),
                                cache |-> LruPut(cache, number, block_info),
                                rpcs |-> <<rpc>>, errs |-> <<>>]

\* AlloyChainProvider::block_info_by_number
BlockInfoByNumber(cache, number) ==
    IF LruContains(cache, number)
    THEN [ret |-> Ok(LruPeek(cache, number)), cache |-> LruGet(cache, number),
          rpcs |-> <<>>, errs |-> <<>>]
    ELSE LET raw_header == L1RawHeader(number)
             rpc == Call("debug_getRawHeader", number, raw_header)
         IN  IF ~raw_header.ok
             THEN [ret |-> raw_header, cache |-> cache, rpcs |-> <<rpc>>,
                   errs |-> <<<<"chain_provider", "block_info_by_number",
                                "debug_getRawHeader">>>>]
             ELSE LET header == HeaderDecode(raw_header.val)
                  IN  IF ~header.ok
                      THEN [ret |-> header, cache |-> cache, rpcs |-> <<rpc>>,
                            errs |-> <<<<"chain_provider",
                                         "block_info_by_number", "decode">>>>]
                      ELSE LET block_info ==
                                   [hash |-> HashSlow(header.val),
                                    number |-> number,
                                    parent_hash |-> header.val.parent_hash,
                                    timestamp |-> header.val.timestamp]
                           IN  [ret |-> Ok(block_info),
                                cache |-> LruPut(cache, number, block_info),
                                rpcs |-> <<rpc>>, errs |-> <<>>]

\* AlloyChainProvider::receipts_by_hash
ReceiptsByHash(cache, hash) ==
    IF LruContains(cache, hash)
    THEN [ret |-> Ok(LruPeek(cache, hash)), cache |-> LruGet(cache, hash),
          rpcs |-> <<>>, errs |-> <<>>]
    ELSE LET raw_receipts == L1RawReceipts(BlockOfHash(hash))
             rpc == Call("debug_getRawReceipts", hash, raw_receipts)
         IN  IF ~raw_receipts.ok
             THEN [ret |-> raw_receipts, cache |-> cache, rpcs |-> <<rpc>>,
                   errs |-> <<<<"chain_provider", "receipts_by_hash",
                                "debug_getRawReceipts">>>>]
             ELSE LET receipts == CollectReceipts(raw_receipts.val)
                  IN  IF ~receipts.ok
                      THEN [ret |-> receipts, cache |-> cache,
                            rpcs |-> <<rpc>>,
                            errs |-> <<<<"chain_provider", "receipts_by_hash",
                                         "decode">>>>]
                      ELSE [ret |-> receipts,
                            cache |-> LruPut(cache, hash, receipts.val),
                            rpcs |-> <<rpc>>, errs |-> <<>>]

\* AlloyChainProvider::block_info_and_transactions_by_hash
BlockInfoAndTransactionsByHash(cache, hash) ==
    IF LruContains(cache, hash)
    THEN [ret |-> Ok(LruPeek(cache, hash)), cache |-> LruGet(cache, hash),
          rpcs |-> <<>>, errs |-> <<>>]
    ELSE LET raw_block == L1RawBlock(BlockOfHash(hash))
             rpc == Call("debug_getRawBlock", hash, raw_block)
         IN  IF ~raw_block.ok
             THEN [ret |-> raw_block, cache |-> cache, rpcs |-> <<rpc>>,
                   errs |-> <<<<"chain_provider",
                                "block_info_and_transactions_by_hash",
                                "debug_getRawBlock">>>>]
             ELSE LET block == BlockDecode(raw_block.val)
                  IN  IF ~block.ok
                      THEN [ret |-> block, cache |-> cache, rpcs |-> <<rpc>>,
                            errs |-> <<<<"chain_provider",
                                         "block_info_and_transactions_by_hash",
                                         "decode">>>>]
                      ELSE LET block_info ==
                                   [hash |-> HashSlow(block.val.header),
                                    number |-> block.val.header.number,
                                    parent_hash |-> block.val.header.parent_hash,
                                    timestamp |-> block.val.header.timestamp]
                               v == [info |-> block_info,
                                     txs |-> block.val.body]
                           IN  [ret |-> Ok(v),
                                cache |-> LruPut(cache, hash, v),
                                rpcs |-> <<rpc>>, errs |-> <<>>]

\* ------------------------------------------------------------ the stage stack
\* S: NextAttributes + ResettableStage + OriginProvider + OriginAdvancer.  The
\* driver sees a stage stack only through these calls; what a call answers is
\* the stack's own business and is chosen freely here.

\* next_attributes(cursor) -> attributes | Eof | Err
NextAttributesAnswers ==
    {Ok(a) : a \in Attrs} \cup {Err(e) : e \in StageErrors}

\* advance_origin() -> Ok | Err
AdvanceOriginAnswers == {Ok(NoVal)} \cup {Err(e) : e \in StageErrors}

\* reset(l1_origin, system_config) -> Ok | Err
StageResetAnswers == {Ok(NoVal)} \cup {Err(e) : e \in StageErrors}

\* advance_origin(): on success the stack consumes the next L1 block.
StageAdvanced(stage) == [stage EXCEPT !.origin = @ + 1]

\* reset(l1_origin, system_config): restore state at the given origin.  The
\* reset descends to the bottom stage, which takes the new origin and system
\* config first; a stage above it may still answer with an error.
StageRestored(stage, l1_block_info, system_config) ==
    [origin |-> l1_block_info.number, system_config |-> system_config]

\* ------------------------------------------------------------------ VecDeque

\* push_front in place of push_back.
PushFront(q, a) == <<a>> \o q

PushBack(q, a) == Append(q, a)

\* pop_back in place of pop_front.
PopBack(q) ==
    IF q = <<>> THEN [ret |-> None, q |-> q]
    ELSE [ret |-> Some(q[Len(q)]), q |-> SubSeq(q, 1, Len(q) - 1)]

PopFront(q) ==
    IF q = <<>> THEN [ret |-> None, q |-> q]
    ELSE [ret |-> Some(Head(q)), q |-> Tail(q)]

\* back in place of front.
Back(q) == IF q = <<>> THEN None ELSE Some(q[Len(q)])

Front(q) == IF q = <<>> THEN None ELSE Some(Head(q))

\* -------------------------------------------------------- DerivationPipeline

StepResult(tag, err) == [tag |-> tag, err |-> err]

\* step, arm Ok(a): the attribute set goes to the back of the prepared queue.
StepPrepared(prep, stage, c1, a) ==
    [result |-> StepResult("PreparedAttributes", "none"),
     prepared |-> PushBack(prep, a), attributes |-> stage, calls |-> <<c1>>]

\* The Eof arm with the result of advance_origin dropped.
StepEofSwallow(prep, stage, c1, adv) ==
    [result |-> StepResult("AdvancedOrigin", "none"), prepared |-> prep,
     attributes |-> IF adv.ok THEN StageAdvanced(stage) ELSE stage,
     calls |-> <<c1, Call("advance_origin", 0, adv)>>]

\* The Eof arm dropping what is prepared when the origin advances.
StepEofClears(prep, stage, c1, adv) ==
    LET c2 == Call("advance_origin", 0, adv)
    IN  IF ~adv.ok
        THEN [result |-> StepResult("OriginAdvanceErr", adv.err),
              prepared |-> prep, attributes |-> stage, calls |-> <<c1, c2>>]
        ELSE [result |-> StepResult("AdvancedOrigin", "none"),
              prepared |-> <<>>, attributes |-> StageAdvanced(stage),
              calls |-> <<c1, c2>>]

\* step, arm Err(StageError::Eof): advance the origin; adv is what the stage
\* stack answers to advance_origin.
StepEof(prep, stage, c1, adv) ==
    LET c2 == Call("advance_origin", 0, adv)
    IN  IF ~adv.ok
        THEN [result |-> StepResult("OriginAdvanceErr", adv.err),
              prepared |-> prep, attributes |-> stage, calls |-> <<c1, c2>>]
        ELSE [result |-> StepResult("AdvancedOrigin", "none"),
              prepared |-> prep, attributes |-> StageAdvanced(stage),
              calls |-> <<c1, c2>>]

\* The error arm taking NotEnoughData for recoverable, as Eof is.
StepErrAdvance(prep, stage, c1, err) ==
    IF err = "NotEnoughData"
    THEN [result |-> StepResult("AdvancedOrigin", "none"), prepared |-> prep,
          attributes |-> stage,
          calls |-> <<c1, Call("advance_origin", 0, Ok(NoVal))>>]
    ELSE [result |-> StepResult("StepFailed", err),
          prepared |-> prep, attributes |-> stage, calls |-> <<c1>>]

\* step, arm Err(err): any other stage error.
StepErr(prep, stage, c1, err) ==
    [result |-> StepResult("StepFailed", err),
     prepared |-> prep, attributes |-> stage, calls |-> <<c1>>]

\* A driver that hands Eof to its caller as a failed step, without advancing
\* the origin.
StepEffectEofFails(prep, stage, cursor, na, adv) ==
    LET c1 == Call("next_attributes", cursor, na)
    IN  IF na.ok THEN StepPrepared(prep, stage, c1, na.val)
        ELSE StepErr(prep, stage, c1, na.err)

\* A driver that latches a failure: once a step has failed, steps fail.
StepEffectLatched(prep, stage, cursor, na, adv) ==
    LET c1 == Call("next_attributes", cursor, na)
    IN  IF recovery # "none" THEN StepErr(prep, stage, c1, "Critical")
        ELSE IF na.ok THEN StepPrepared(prep, stage, c1, na.val)
        ELSE IF na.err = "Eof" THEN StepEof(prep, stage, c1, adv)
        ELSE StepErr(prep, stage, c1, na.err)

\* Pipeline::step, given what the stage stack answers: na to next_attributes
\* and, if asked, adv to advance_origin.
StepEffect(prep, stage, cursor, na, adv) ==
    LET c1 == Call("next_attributes", cursor, na)
    IN  IF na.ok THEN StepPrepared(prep, stage, c1, na.val)
        ELSE IF na.err = "Eof" THEN StepEof(prep, stage, c1, adv)
        ELSE StepErr(prep, stage, c1, na.err)

\* Eof from the stage stack's reset taken for a failure.
ResetResultStrict(rs) == IF rs.ok THEN Ok(NoVal) ELSE Err(rs.err)

\* What Pipeline::reset returns for the stage stack's answer rs.
ResetResult(rs) ==
    IF rs.ok THEN Ok(NoVal)
    ELSE IF rs.err = "Eof" THEN Ok(NoVal)
    ELSE Err(rs.err)

\* reset with the two block infos swapped in the call to the stage stack.
ResetEffectSwapped(prep, stage, cfg, pc, sc, l2_block_info, l1_block_info, rs) ==
    LET system_config == SystemConfigByNumber(pc, sc, l2_block_info.number, cfg)
        c1 == Call("system_config_by_number", l2_block_info.number,
                   [cfg |-> cfg, ret |-> system_config.ret])
    IN  IF ~system_config.ret.ok
        THEN [result |-> Err(system_config.ret.err), prepared |-> prep,
              attributes |-> stage, pc |-> system_config.pc,
              sc |-> system_config.sc, calls |-> <<c1>>,
              rpcs |-> system_config.rpcs, errs |-> system_config.errs]
        ELSE LET c2 == Call("reset", l2_block_info.number,
                            [l1 |-> l2_block_info,
                             system_config |-> system_config.ret.val,
                             ret |-> rs])
             IN  [result |-> ResetResult(rs), prepared |-> prep,
                  attributes |-> StageRestored(stage, l2_block_info,
                                               system_config.ret.val),
                  pc |-> system_config.pc, sc |-> system_config.sc,
                  calls |-> <<c1, c2>>, rpcs |-> system_config.rpcs,
                  errs |-> system_config.errs]

\* A reset that also drops what is prepared.
ResetEffectClears(prep, stage, cfg, pc, sc, l2_block_info, l1_block_info, rs) ==
    LET system_config == SystemConfigByNumber(pc, sc, l2_block_info.number, cfg)
        c1 == Call("system_config_by_number", l2_block_info.number,
                   [cfg |-> cfg, ret |-> system_config.ret])
    IN  IF ~system_config.ret.ok
        THEN [result |-> Err(system_config.ret.err), prepared |-> prep,
              attributes |-> stage, pc |-> system_config.pc,
              sc |-> system_config.sc, calls |-> <<c1>>,
              rpcs |-> system_config.rpcs, errs |-> system_config.errs]
        ELSE LET c2 == Call("reset", l1_block_info.number,
                            [l1 |-> l1_block_info,
                             system_config |-> system_config.ret.val,
                             ret |-> rs])
             IN  [result |-> ResetResult(rs), prepared |-> <<>>,
                  attributes |-> StageRestored(stage, l1_block_info,
                                               system_config.ret.val),
                  pc |-> system_config.pc, sc |-> system_config.sc,
                  calls |-> <<c1, c2>>, rpcs |-> system_config.rpcs,
                  errs |-> system_config.errs]

\* A reset that goes on to the stage stack when the provider has failed,
\* with no system config.
ResetEffectGoesOn(prep, stage, cfg, pc, sc, l2_block_info, l1_block_info, rs) ==
    LET system_config == SystemConfigByNumber(pc, sc, l2_block_info.number, cfg)
        c1 == Call("system_config_by_number", l2_block_info.number,
                   [cfg |-> cfg, ret |-> system_config.ret])
        c2 == Call("reset", l1_block_info.number,
                   [l1 |-> l1_block_info,
                    system_config |-> system_config.ret.val, ret |-> rs])
    IN  [result |-> IF system_config.ret.ok THEN ResetResult(rs)
                    ELSE Err(system_config.ret.err),
         prepared |-> prep,
         attributes |-> StageRestored(stage, l1_block_info,
                                      system_config.ret.val),
         pc |-> system_config.pc, sc |-> system_config.sc,
         calls |-> <<c1, c2>>, rpcs |-> system_config.rpcs,
         errs |-> system_config.errs]

\* Pipeline::reset, given the stage stack's answer rs to reset.
ResetEffect(prep, stage, cfg, pc, sc, l2_block_info, l1_block_info, rs) ==
    LET system_config == SystemConfigByNumber(pc, sc, l2_block_info.number, cfg)
        c1 == Call("system_config_by_number", l2_block_info.number,
                   [cfg |-> cfg, ret |-> system_config.ret])
    IN  IF ~system_config.ret.ok
        THEN [result |-> Err(system_config.ret.err), prepared |-> prep,
              attributes |-> stage, pc |-> system_config.pc,
              sc |-> system_config.sc, calls |-> <<c1>>,
              rpcs |-> system_config.rpcs, errs |-> system_config.errs]
        ELSE LET c2 == Call("reset", l1_block_info.number,
                            [l1 |-> l1_block_info,
                             system_config |-> system_config.ret.val,
                             ret |-> rs])
             IN  [result |-> ResetResult(rs), prepared |-> prep,
                  attributes |-> StageRestored(stage, l1_block_info,
                                               system_config.ret.val),
                  pc |-> system_config.pc, sc |-> system_config.sc,
                  calls |-> <<c1, c2>>, rpcs |-> system_config.rpcs,
                  errs |-> system_config.errs]

\* The host process before either entry point is called.
NotStarted ==
    [mode |-> "none", cfg |-> NoVal, fetcher |-> "unset", providers |-> FALSE,
     server_built |-> FALSE, server |-> "idle", server_task |-> "none",
     child |-> "none", program_task |-> "none", result |-> "none"]

\* The client watches no header yet.
NoWatch ==
    [set |-> FALSE, looking |-> FALSE, block |-> 0, ret |-> NoVal,
     used |-> {}, inserted |-> {}, seen_used |-> 0, seen_inserted |-> 0]

\* What the callee answered to external call c.
Answer(c) ==
    IF c.fn \in {"next_attributes", "advance_origin"} THEN c.ret ELSE c.ret.ret

Answers(calls) == [i \in DOMAIN calls |-> Answer(calls[i])]

\* The record of a call: repeat says that the call before it was the same call
\* with the same arguments and got the same answers from the stage stack and
\* the provider; after is the recovery history it started from.
Called(op, args, result, calls, rpcs, errs) ==
    [op |-> op, args |-> args, result |-> result, calls |-> calls,
     rpcs |-> rpcs, errs |-> errs,
     repeat |-> (last.op = op /\ last.args = args
                 /\ Answers(last.calls) = Answers(calls)),
     after |-> recovery]

\* DerivationPipeline::new with a fresh AlloyL2ChainProvider::new.
Init ==
    /\ prepared = <<>>
    /\ attributes = [origin |-> 0, system_config |-> NoVal]
    /\ rollup_config = PipelineConfig
    /\ payload_by_number_cache = <<>>
    /\ l2_block_info_by_number_cache = <<>>
    /\ system_config_by_number_cache = <<>>
    /\ produced = <<>>
    /\ consumed = <<>>
    /\ recovery = "none"
    /\ header_by_hash_cache = <<>>
    /\ block_info_by_number_cache = <<>>
    /\ receipts_by_hash_cache = <<>>
    /\ block_info_and_transactions_by_hash_cache = <<>>
    /\ head = 0
    /\ done = {}
    /\ back = 0
    /\ watch = NoWatch
    /\ host = NotStarted
    /\ hint_channel = [sent |-> <<>>, read |-> 0, prefetched |-> <<>>,
                       acks |-> <<>>, open |-> TRUE]
    /\ last = [op |-> "new", args |-> <<>>, result |-> NoVal, calls |-> <<>>,
               rpcs |-> <<>>, errs |-> <<>>, repeat |-> FALSE,
               after |-> "none"]

\* Pipeline::step(cursor)
Step(cursor, na, adv) ==
    /\ na.ok => Len(produced) < MaxProduced
    /\ (~na.ok /\ na.err = "Eof" /\ adv.ok) => attributes.origin < MaxOrigin
    /\ LET e == StepEffect(prepared, attributes, cursor, na, adv)
       IN  /\ prepared' = e.prepared
           /\ attributes' = e.attributes
           /\ produced' = IF na.ok THEN Append(produced, na.val) ELSE produced
           /\ recovery' =
                  IF e.result.tag \in {"StepFailed", "OriginAdvanceErr"}
                  THEN "failed" ELSE "none"
           /\ last' = Called("step", <<cursor>>, e.result, e.calls, <<>>, <<>>)
    /\ UNCHANGED <<rollup_config, l2_chain_provider, consumed,
                   chain_provider, client, host_side>>

\* Iterator::next
IteratorNext ==
    /\ LET r == PopFront(prepared)
       IN  /\ prepared' = r.q
           /\ consumed' =
                  IF r.ret.some THEN Append(consumed, r.ret.val) ELSE consumed
           /\ last' = Called("next", <<>>, r.ret, <<>>, <<>>, <<>>)
    /\ UNCHANGED <<attributes, rollup_config, l2_chain_provider, produced,
                   recovery, chain_provider, client,
                   host_side>>

\* Pipeline::peek
Peek ==
    /\ last' = Called("peek", <<>>, Front(prepared), <<>>, <<>>, <<>>)
    /\ UNCHANGED <<host_side, pipeline, l2_chain_provider,
                   chain_provider, client>>

\* Pipeline::reset(l2_block_info, l1_block_info)
Reset(l2_block_info, l1_block_info, rs) ==
    /\ LET e == ResetEffect(prepared, attributes, rollup_config,
                            payload_by_number_cache,
                            system_config_by_number_cache,
                            l2_block_info, l1_block_info, rs)
       IN  /\ prepared' = e.prepared
           /\ attributes' = e.attributes
           /\ payload_by_number_cache' = e.pc
           /\ system_config_by_number_cache' = e.sc
           /\ recovery' =
                  IF recovery = "failed" /\ e.result.ok THEN "reset"
                  ELSE recovery
           /\ last' = Called("reset", <<l2_block_info, l1_block_info>>,
                             e.result, e.calls, e.rpcs, e.errs)
    /\ UNCHANGED <<rollup_config, l2_block_info_by_number_cache, produced,
                   consumed, chain_provider, client, host_side>>

\* Whether a reset to L2 block l2 gets as far as asking the stage stack (the
\* stack's answer is drawn only then).
ResetReachesStage(l2) ==
    SystemConfigByNumber(payload_by_number_cache,
                         system_config_by_number_cache, l2,
                         rollup_config).ret.ok

\* The caller steps with its L2 safe head: one block per attribute set it has
\* taken from the driver.
Cursor == Len(consumed)

Next ==
    \/ \E na \in NextAttributesAnswers :
           \E adv \in (IF ~na.ok /\ na.err = "Eof"
                       THEN AdvanceOriginAnswers ELSE {Ok(NoVal)}) :
               Step(Cursor, na, adv)
    \/ IteratorNext
    \/ Peek
    \/ \E l2 \in L2Numbers, l1 \in L1Origins :
           \E rs \in (IF ResetReachesStage(l2)
                      THEN StageResetAnswers ELSE {Ok(NoVal)}) :
               Reset(BlockInfo(l2), BlockInfo(l1), rs)

Spec == Init /\ [][Next]_vars

\* ------------------------------------------------- the providers' operations
\* The providers' client walks the chain upwards: it asks the seven methods
\* about block `head` in any order and as often as it likes, and moves on to
\* the next block once every method has been asked.

Methods ==
    {"header_by_hash", "block_info_by_number", "receipts_by_hash",
     "block_info_and_transactions_by_hash", "payload_by_number",
     "l2_block_info_by_number", "system_config_by_number"}

\* The client's bookkeeping after asking method m about block head.
Asked(m) ==
    IF m \in done
    THEN UNCHANGED client
    ELSE /\ IF done \cup {m} = Methods /\ head < MaxBlock
            THEN head' = head + 1 /\ done' = {}
            ELSE head' = head /\ done' = done \cup {m}
         /\ UNCHANGED <<back, watch>>

\* ChainProvider::header_by_hash(hash)
HeaderByHashCall(hash) ==
    /\ LET r == HeaderByHash(header_by_hash_cache, hash)
       IN  /\ header_by_hash_cache' = r.cache
           /\ last' = Called("header_by_hash", <<hash>>, r.ret, <<>>, r.rpcs,
                             r.errs)
    /\ UNCHANGED <<host_side, pipeline, l2_chain_provider,
                   block_info_by_number_cache,
                   receipts_by_hash_cache,
                   block_info_and_transactions_by_hash_cache>>

\* ChainProvider::block_info_by_number(number)
BlockInfoByNumberCall(number) ==
    /\ LET r == BlockInfoByNumber(block_info_by_number_cache, number)
       IN  /\ block_info_by_number_cache' = r.cache
           /\ last' = Called("block_info_by_number", <<number>>, r.ret, <<>>,
                             r.rpcs, r.errs)
    /\ UNCHANGED <<host_side, pipeline, l2_chain_provider, header_by_hash_cache,
                   receipts_by_hash_cache,
                   block_info_and_transactions_by_hash_cache>>

\* ChainProvider::receipts_by_hash(hash)
ReceiptsByHashCall(hash) ==
    /\ LET r == ReceiptsByHash(receipts_by_hash_cache, hash)
       IN  /\ receipts_by_hash_cache' = r.cache
           /\ last' = Called("receipts_by_hash", <<hash>>, r.ret, <<>>,
                             r.rpcs, r.errs)
    /\ UNCHANGED <<host_side, pipeline, l2_chain_provider, header_by_hash_cache,
                   block_info_by_number_cache,
                   block_info_and_transactions_by_hash_cache>>

\* ChainProvider::block_info_and_transactions_by_hash(hash)
BlockInfoAndTransactionsByHashCall(hash) ==
    /\ LET r == BlockInfoAndTransactionsByHash(
                    block_info_and_transactions_by_hash_cache, hash)
       IN  /\ block_info_and_transactions_by_hash_cache' = r.cache
           /\ last' = Called("block_info_and_transactions_by_hash", <<hash>>,
                             r.ret, <<>>, r.rpcs, r.errs)
    /\ UNCHANGED <<host_side, pipeline, l2_chain_provider, header_by_hash_cache,
                   block_info_by_number_cache, receipts_by_hash_cache>>

\* L2ChainProvider::payload_by_number(number)
PayloadByNumberCall(number) ==
    /\ LET r == PayloadByNumber(payload_by_number_cache, number)
       IN  /\ payload_by_number_cache' = r.pc
           /\ last' = Called("payload_by_number", <<number>>, r.ret, <<>>,
                             r.rpcs, r.errs)
    /\ UNCHANGED <<host_side, pipeline, chain_provider,
                   l2_block_info_by_number_cache,
                   system_config_by_number_cache>>

\* L2ChainProvider::l2_block_info_by_number(number)
L2BlockInfoByNumberCall(number) ==
    /\ LET r == L2BlockInfoByNumber(payload_by_number_cache,
                                    l2_block_info_by_number_cache, number)
       IN  /\ payload_by_number_cache' = r.pc
           /\ l2_block_info_by_number_cache' = r.ic
           /\ last' = Called("l2_block_info_by_number", <<number>>, r.ret,
                             <<>>, r.rpcs, r.errs)
    /\ UNCHANGED <<host_side, pipeline, chain_provider,
                   system_config_by_number_cache>>

\* L2ChainProvider::system_config_by_number(number, rollup_config)
SystemConfigByNumberCall(number, cfg) ==
    /\ LET r == SystemConfigByNumber(payload_by_number_cache,
                                     system_config_by_number_cache, number,
                                     cfg)
       IN  /\ payload_by_number_cache' = r.pc
           /\ system_config_by_number_cache' = r.sc
           /\ last' = Called("system_config_by_number", <<number, cfg>>,
                             r.ret, <<>>, r.rpcs, r.errs)
    /\ UNCHANGED <<host_side, pipeline, chain_provider,
                   l2_block_info_by_number_cache>>

NextSweep ==
    \/ HeaderByHashCall(Hash(head)) /\ Asked("header_by_hash")
    \/ BlockInfoByNumberCall(head) /\ Asked("block_info_by_number")
    \/ ReceiptsByHashCall(Hash(head)) /\ Asked("receipts_by_hash")
    \/ BlockInfoAndTransactionsByHashCall(Hash(head))
           /\ Asked("block_info_and_transactions_by_hash")
    \/ PayloadByNumberCall(head) /\ Asked("payload_by_number")
    \/ L2BlockInfoByNumberCall(head) /\ Asked("l2_block_info_by_number")
    \/ SystemConfigByNumberCall(head, ProviderConfig)
           /\ Asked("system_config_by_number")

SpecSweep == Init /\ [][NextSweep]_vars

\* A client of header_by_hash that walks the chain upwards and looks back: at
\* some point it notes the header it just got (watch) and re-reads older
\* blocks, one after the other from the first block on and at most up to the
\* noted one (looking), before it goes on fetching new blocks; it asks for the
\* noted header again whenever it likes.  watch keeps, for the noted block:
\* ret, what the call returned; used
\* and inserted, the other keys that header_by_hash_cache has since returned or
\* stored, resp. stored; seen_used and seen_inserted, how many those were when
\* the noted block was last asked for again.

\* The header the client notes: the one the call just made returned.
Noted ==
    [set |-> TRUE, looking |-> TRUE, block |-> BlockOfHash(last.args[1]),
     ret |-> last.result, used |-> {}, inserted |-> {}, seen_used |-> 0,
     seen_inserted |-> 0]

\* watch w after header_by_hash was called for block k and had effect r.
Observed(w, k, r) ==
    IF ~w.set THEN w
    ELSE IF k = w.block
    THEN [w EXCEPT !.seen_used = Cardinality(w.used),
                   !.seen_inserted = Cardinality(w.inserted),
                   !.used = IF r.ret.ok THEN {} ELSE @,
                   !.inserted = IF r.ret.ok THEN {} ELSE @]
    ELSE [w EXCEPT !.used = IF r.ret.ok THEN @ \cup {k} ELSE @,
                   !.inserted =
                       IF r.ret.ok /\ r.rpcs # <<>> THEN @ \cup {k} ELSE @]

\* The client fetches the next new block.
Fetch ==
    /\ HeaderByHashCall(Hash(head))
    /\ head' = IF head < MaxBlock THEN head + 1 ELSE head
    /\ watch' = Observed([watch EXCEPT !.looking = FALSE], head,
                         HeaderByHash(header_by_hash_cache, Hash(head)))
    /\ UNCHANGED <<done, back>>

\* The client re-reads the next older block.
LookBack ==
    /\ watch.set \/ (last.op = "header_by_hash" /\ last.result.ok)
    /\ LET w == IF watch.set THEN watch ELSE Noted
       IN  /\ w.looking
           /\ back < w.block
           /\ HeaderByHashCall(Hash(back))
           /\ back' = back + 1
           /\ watch' = Observed(w, back,
                                HeaderByHash(header_by_hash_cache, Hash(back)))
    /\ UNCHANGED <<head, done>>

\* The client asks for the noted header again.
Again ==
    /\ watch.set
    /\ HeaderByHashCall(Hash(watch.block))
    /\ watch' = Observed(watch, watch.block,
                         HeaderByHash(header_by_hash_cache, Hash(watch.block)))
    /\ UNCHANGED <<head, done, back>>

NextRevisit == Fetch \/ LookBack \/ Again

SpecRevisit == Init /\ [][NextRevisit]_vars

\* A client that asks any method about any of a few blocks, in any order, and
\* passes any rollup config to system_config_by_number.
NextLookup ==
    \/ \E number \in L1Numbers :
           \/ HeaderByHashCall(Hash(number)) /\ UNCHANGED client
           \/ BlockInfoByNumberCall(number) /\ UNCHANGED client
           \/ ReceiptsByHashCall(Hash(number)) /\ UNCHANGED client
           \/ BlockInfoAndTransactionsByHashCall(Hash(number))
                  /\ UNCHANGED client
    \/ \E number \in L2Numbers :
           \/ PayloadByNumberCall(number) /\ UNCHANGED client
           \/ L2BlockInfoByNumberCall(number) /\ UNCHANGED client
           \/ \E cfg \in RollupConfigs :
                  SystemConfigByNumberCall(number, cfg) /\ UNCHANGED client

SpecLookup == Init /\ [][NextLookup]_vars

\* What a provider that was just constructed (every cache empty) returns for
\* method op with arguments args: the answer of the node, decoded.
Uncached(op, args) ==
    CASE op = "header_by_hash" -> HeaderByHash(<<>>, args[1]).ret
      [] op = "block_info_by_number" -> BlockInfoByNumber(<<>>, args[1]).ret
      [] op = "receipts_by_hash" -> ReceiptsByHash(<<>>, args[1]).ret
      [] op = "block_info_and_transactions_by_hash" ->
             BlockInfoAndTransactionsByHash(<<>>, args[1]).ret
      [] op = "payload_by_number" -> PayloadByNumber(<<>>, args[1]).ret
      [] op = "l2_block_info_by_number" ->
             L2BlockInfoByNumber(<<>>, <<>>, args[1]).ret
      [] op = "system_config_by_number" ->
             SystemConfigByNumber(<<>>, <<>>, args[1], args[2]).ret

\* ------------------------------------------------------------------ the host
\* host.cfg, the HostCli: offline, cfg.is_offline(); urls, whether the node
\* and beacon addresses are set; exec, whether the client binary is set.
\* host.server is the future PreimageServer::start; server_task and
\* program_task are the two spawned tasks of native mode, child is the client
\* child process.  host.result is what the entry point returned: "none" while
\* it runs, "ok", "err", or "unwound" when a panic left the entry point.

HostClis == [offline : BOOLEAN, urls : BOOLEAN, exec : BOOLEAN]

\* A fetcher whatever cfg.is_offline() says.
ConstructFetcherAlways(cfg, load_ok) ==
    IF ~cfg.urls
    THEN [outcome |-> "panic", fetcher |-> "unset", providers |-> FALSE]
    ELSE IF ~load_ok
    THEN [outcome |-> "err", fetcher |-> "unset", providers |-> TRUE]
    ELSE [outcome |-> "ok", fetcher |-> "Some", providers |-> TRUE]

\* let fetcher = if !cfg.is_offline() { .. Some(..) } else { None }: online,
\* an address that is not set panics (expect), a failing load_configs returns
\* the error, otherwise the beacon client, the blob provider and the two RPC
\* providers are created and the fetcher with them.
ConstructFetcher(cfg, load_ok) ==
    IF ~cfg.offline
    THEN IF ~cfg.urls
         THEN [outcome |-> "panic", fetcher |-> "unset", providers |-> FALSE]
         ELSE IF ~load_ok
         THEN [outcome |-> "err", fetcher |-> "unset", providers |-> TRUE]
         ELSE [outcome |-> "ok", fetcher |-> "Some", providers |-> TRUE]
    ELSE [outcome |-> "ok", fetcher |-> "None", providers |-> FALSE]

\* What PreimageServer::start can do once it runs.
ServerOutcomes == {"ok", "err", "panicked"}

\* start_server, from the call to `server.start().await`.
StartServer(cfg, load_ok) ==
    /\ host.mode = "none"
    /\ LET f == ConstructFetcher(cfg, load_ok)
       IN  host' =
               IF f.outcome = "ok"
               THEN [host EXCEPT !.mode = "server", !.cfg = cfg,
                                 !.fetcher = f.fetcher,
                                 !.providers = f.providers,
                                 !.server_built = TRUE, !.server = "running"]
               ELSE [host EXCEPT !.mode = "server", !.cfg = cfg,
                                 !.providers = f.providers,
                                 !.result = IF f.outcome = "panic"
                                            THEN "unwound" ELSE "err"]
    /\ UNCHANGED <<pipeline, l2_chain_provider, chain_provider, client, last,
                   hint_channel>>

\* start_server, `server.start().await?` and what follows: the server's error
\* is returned, its panic unwinds through the await.
StartServerReturns(outcome) ==
    /\ host.mode = "server"
    /\ host.server = "running"
    /\ host' = [host EXCEPT !.server = outcome,
                            !.result = CASE outcome = "ok" -> "ok"
                                         [] outcome = "err" -> "err"
                                         [] outcome = "panicked" -> "unwound"]
    /\ UNCHANGED <<pipeline, l2_chain_provider, chain_provider, client, last,
                   hint_channel>>

\* start_server_and_native_client, from the call to the select!.
StartServerAndNativeClient(cfg, pipes_ok, load_ok) ==
    /\ host.mode = "none"
    /\ LET f == ConstructFetcher(cfg, load_ok)
       IN  host' =
               IF ~pipes_ok
               THEN [host EXCEPT !.mode = "native", !.cfg = cfg,
                                 !.result = "err"]
               ELSE IF f.outcome = "ok"
               THEN [host EXCEPT !.mode = "native", !.cfg = cfg,
                                 !.fetcher = f.fetcher,
                                 !.providers = f.providers,
                                 !.server_task = "spawned",
                                 !.program_task = "spawned"]
               ELSE [host EXCEPT !.mode = "native", !.cfg = cfg,
                                 !.providers = f.providers,
                                 !.result = IF f.outcome = "panic"
                                            THEN "unwound" ELSE "err"]
    /\ UNCHANGED <<pipeline, l2_chain_provider, chain_provider, client, last,
                   hint_channel>>

\* The spawned tasks run as long as the entry point has not returned.
Running == host.mode = "native" /\ host.result = "none"

\* start_native_preimage_server, up to the await of server.start().
NativePreimageServerStarts ==
    /\ Running
    /\ host.server_task = "spawned"
    /\ host' = [host EXCEPT !.server_built = TRUE, !.server = "running",
                            !.server_task = "running"]
    /\ UNCHANGED <<pipeline, l2_chain_provider, chain_provider, client, last,
                   hint_channel>>

\* start_native_preimage_server, from catch_unwind on: a panic and an error
\* of the server both become an error of the task.
NativePreimageServerReturns(outcome) ==
    /\ Running
    /\ host.server = "running"
    /\ host' = [host EXCEPT !.server = outcome,
                            !.server_task = IF outcome = "ok"
                                            THEN "ok" ELSE "err"]
    /\ UNCHANGED <<pipeline, l2_chain_provider, chain_provider, client, last,
                   hint_channel>>

\* start_native_client_program, up to the await of command.status().
NativeClientProgramStarts(spawn_ok) ==
    /\ Running
    /\ host.program_task = "spawned"
    /\ host' =
           IF ~host.cfg.exec
           THEN [host EXCEPT !.program_task = "err"]
           ELSE IF ~spawn_ok
           THEN [host EXCEPT !.program_task = "err",
                             !.child = "spawn_failed"]
           ELSE [host EXCEPT !.program_task = "running",
                             !.child = "running"]
    /\ UNCHANGED <<pipeline, l2_chain_provider, chain_provider, client, last,
                   hint_channel>>

\* The client child process exits, with status 0 or not.
ChildExits(status) ==
    /\ host.child = "running"
    /\ host' = [host EXCEPT !.child = status]
    /\ UNCHANGED <<pipeline, l2_chain_provider, chain_provider, client, last,
                   hint_channel>>

\* start_native_client_program, from `.success()` on.
NativeClientProgramReturns ==
    /\ Running
    /\ host.program_task = "running"
    /\ host.child \in {"exit0", "exit1"}
    /\ host' = [host EXCEPT !.program_task = IF host.child = "exit0"
                                             THEN "ok" ELSE "err"]
    /\ UNCHANGED <<pipeline, l2_chain_provider, chain_provider, client, last,
                   hint_channel>>

\* The tasks that have completed.
Finished ==
    {t \in {"server_task", "program_task"} : host[t] \in {"ok", "err"}}

\* start_server_and_native_client, the select! and what follows: the branch
\* of a task that has completed runs, `r?` returns its error, and otherwise
\* the function returns Ok(()).
SelectReturns(t) ==
    /\ Running
    /\ t \in Finished
    /\ host' = [host EXCEPT !.result = host[t]]
    /\ UNCHANGED <<pipeline, l2_chain_provider, chain_provider, client, last,
                   hint_channel>>

NextHost ==
    \/ \E cfg \in HostClis, load_ok \in BOOLEAN : StartServer(cfg, load_ok)
    \/ \E outcome \in ServerOutcomes : StartServerReturns(outcome)
    \/ \E cfg \in HostClis, pipes_ok, load_ok \in BOOLEAN :
           StartServerAndNativeClient(cfg, pipes_ok, load_ok)
    \/ NativePreimageServerStarts
    \/ \E outcome \in ServerOutcomes : NativePreimageServerReturns(outcome)
    \/ \E spawn_ok \in BOOLEAN : NativeClientProgramStarts(spawn_ok)
    \/ \E status \in {"exit0", "exit1"} : ChildExits(status)
    \/ NativeClientProgramReturns
    \/ \E t \in {"server_task", "program_task"} : SelectReturns(t)

SpecHost == Init /\ [][NextHost]_vars

\* ---------------------------------------------------------- the hint channel
\* The server's hint loop: Idle -> RecvHint -> Prefetching -> Ack -> Idle.
\* hint_channel.sent, the frames the client has written, in order; read, how
\* many complete frames the server has read; prefetched, the frames for which
\* Fetcher.hint and Fetcher.prefetch succeeded; acks, the acknowledgment bytes
\* the server has written, each with the frame it answers; open, FALSE once a
\* fatal I/O error has terminated the loop.

\* The closed hint vocabulary, and a hint outside it.
KnownHints == {"l1-block-header", "l2-block-header"}
Hints == KnownHints \cup {"unknown"}

\* The hint loop acknowledging every frame it has read.
HintFrameAlwaysAcked(ch, fetch_ok) ==
    LET frame == ch.read + 1
        ok == ch.sent[frame] \in KnownHints /\ fetch_ok
    IN  [ch EXCEPT !.read = frame,
                   !.prefetched = IF ok THEN Append(@, frame) ELSE @,
                   !.acks = Append(@, [byte |-> 0, frame |-> frame])]

\* One round of the hint loop on channel ch: read the next frame, invoke
\* Fetcher.hint then Fetcher.prefetch, and on success write the 1-byte
\* acknowledgment; an unknown hint or a failed fetch is logged and the loop
\* goes on.
HintFrameHandled(ch, fetch_ok) ==
    LET frame == ch.read + 1
        ok == ch.sent[frame] \in KnownHints /\ fetch_ok
    IN  [ch EXCEPT !.read = frame,
                   !.prefetched = IF ok THEN Append(@, frame) ELSE @,
                   !.acks = IF ok THEN Append(@, [byte |-> 0, frame |-> frame])
                            ELSE @]

\* The client program writes a hint frame.
ClientWritesHint(h) ==
    /\ hint_channel.open
    /\ Len(hint_channel.sent) < MaxFrames
    /\ hint_channel' = [hint_channel EXCEPT !.sent = Append(@, h)]
    /\ UNCHANGED <<pipeline, l2_chain_provider, chain_provider, client, last,
                   host>>

\* The server handles the next frame; fetch_ok, whether the fetch behind
\* prefetch succeeds.
HintLoop(fetch_ok) ==
    /\ hint_channel.open
    /\ hint_channel.read < Len(hint_channel.sent)
    /\ hint_channel' = HintFrameHandled(hint_channel, fetch_ok)
    /\ UNCHANGED <<pipeline, l2_chain_provider, chain_provider, client, last,
                   host>>

\* A fatal I/O error on the channel terminates the loop.
HintChannelFails ==
    /\ hint_channel.open
    /\ hint_channel' = [hint_channel EXCEPT !.open = FALSE]
    /\ UNCHANGED <<pipeline, l2_chain_provider, chain_provider, client, last,
                   host>>

NextHint ==
    \/ \E h \in Hints : ClientWritesHint(h)
    \/ \E fetch_ok \in BOOLEAN : HintLoop(fetch_ok)
    \/ HintChannelFails

SpecHint == Init /\ [][NextHint]_vars

\* ------------------------------------------------------------------- claims

\* C1: a step that returns PreparedAttributes makes the prepared queue exactly
\* one element longer, the attribute set the stage stack returned appended at
\* the back and the earlier elements unchanged in their positions; a next on
\* a non-empty queue makes it exactly one element shorter, the front element
\* removed (and returned) and the rest unchanged in order.
C1_StepAppendsNextPops ==
    [][ /\ (last'.op = "step" /\ last'.result.tag = "PreparedAttributes")
            => /\ Len(prepared') = Len(prepared) + 1
               /\ SubSeq(prepared', 1, Len(prepared)) = prepared
               /\ prepared'[Len(prepared')] = last'.calls[1].ret.val
        /\ (last'.op = "next" /\ prepared # <<>>)
            => /\ Len(prepared') = Len(prepared) - 1
               /\ prepared' = Tail(prepared)
               /\ last'.result = Some(Head(prepared))
      ]_vars

\* A next has just taken the front of a queue of two: the second step had
\* appended behind an earlier element.
C1_Witness ==
    /\ last.op = "next" /\ last.result.some
    /\ Len(produced) = 2 /\ Len(prepared) = 1 /\ Len(consumed) = 1

\* C2: the attribute sets next has returned are a prefix of the attribute sets
\* the stage stack returned from next_attributes, in the same order, and what
\* next has not returned yet is exactly the prepared queue: nothing is
\* reordered, duplicated, dropped or returned twice.  (Checked in every
\* reachable state, those after a reset included.)
C2_NextYieldsStageOrder ==
    /\ Len(consumed) <= Len(produced)
    /\ SubSeq(produced, 1, Len(consumed)) = consumed
    /\ produced = consumed \o prepared

\* next has returned two different attribute sets.
C2_Witness ==
    /\ Len(consumed) = 2 /\ consumed[1] # consumed[2]
    /\ last.op = "next"

\* C3: when next_attributes answers Eof, step calls advance_origin exactly
\* once and returns AdvancedOrigin if that succeeds, OriginAdvanceErr(e) with
\* the very error e if it fails; a step to which next_attributes answers with
\* an attribute set returns PreparedAttributes.
C3_EofAdvancesOrigin ==
    last.op = "step" =>
        LET na == last.calls[1].ret
        IN  /\ (~na.ok /\ na.err = "Eof") =>
                /\ Len(last.calls) = 2
                /\ last.calls[1].fn = "next_attributes"
                /\ last.calls[2].fn = "advance_origin"
                /\ last.calls[2].ret.ok =>
                       last.result = StepResult("AdvancedOrigin", "none")
                /\ ~last.calls[2].ret.ok =>
                       last.result =
                           StepResult("OriginAdvanceErr", last.calls[2].ret.err)
            /\ na.ok => last.result = StepResult("PreparedAttributes", "none")

\* A step hit Eof, advance_origin failed with a non-Eof error.
C3_Witness ==
    /\ last.op = "step"
    /\ last.calls[1].ret = Err("Eof")
    /\ last.result = StepResult("OriginAdvanceErr", "NotEnoughData")

\* C4: when next_attributes answers an error other than Eof, step returns
\* StepFailed with that same error and does not call advance_origin; only an
\* Eof answer makes step call advance_origin.
C4_OtherErrorsFail ==
    last.op = "step" =>
        LET na == last.calls[1].ret
        IN  /\ (~na.ok /\ na.err # "Eof") =>
                /\ last.result = StepResult("StepFailed", na.err)
                /\ Len(last.calls) = 1
            /\ (\E i \in DOMAIN last.calls : last.calls[i].fn = "advance_origin")
                   => na = Err("Eof")

\* A step failed on NotEnoughData.
C4_Witness ==
    /\ last.op = "step"
    /\ last.result = StepResult("StepFailed", "NotEnoughData")

\* C5: reset(l2_block_info, l1_block_info) first asks the L2 chain provider
\* for the system config at l2_block_info.number with the pipeline's own
\* rollup config; when that fails it asks the stage stack nothing; when it
\* succeeds it calls the stage stack's reset exactly once, with
\* (l1_block_info, the system config just returned).
C5_ResetAsksProviderThenStage ==
    last.op = "reset" =>
        /\ Len(last.calls) >= 1
        /\ last.calls[1].fn = "system_config_by_number"
        /\ last.calls[1].arg = last.args[1].number
        /\ last.calls[1].ret.cfg = rollup_config
        /\ ~last.calls[1].ret.ret.ok => Len(last.calls) = 1
        /\ last.calls[1].ret.ret.ok =>
            /\ Len(last.calls) = 2
            /\ last.calls[2].fn = "reset"
            /\ last.calls[2].ret.l1 = last.args[2]
            /\ last.calls[2].ret.system_config = last.calls[1].ret.ret.val
            /\ last.calls[2].ret.system_config.number = last.args[1].number

\* A reset to L2 block 3 and L1 origin 1 reached the stage stack.
C5_Witness ==
    /\ last.op = "reset" /\ Len(last.calls) = 2
    /\ last.args[1].number = 3 /\ last.args[2].number = 1

\* C6: if the stage stack's reset answers Eof, the driver's reset returns Ok;
\* if it answers any other error, the driver's reset returns that error.
C6_ResetEofIsBenign ==
    (last.op = "reset" /\ Len(last.calls) = 2) =>
        LET rs == last.calls[2].ret.ret
        IN  /\ rs.ok => last.result.ok
            /\ (~rs.ok /\ rs.err = "Eof") => last.result = Ok(NoVal)
            /\ (~rs.ok /\ rs.err # "Eof") => last.result = Err(rs.err)

\* The stage stack answered Eof to a reset and the reset returned Ok.
C6_Witness ==
    /\ last.op = "reset" /\ Len(last.calls) = 2
    /\ last.calls[2].ret.ret = Err("Eof")
    /\ last.result.ok

\* C7: a reset(a, b) made right after a reset(a, b), the stage stack answering
\* both alike, returns what the first returned and leaves the prepared queue,
\* the rollup config, the stage stack and the L2 provider (its caches, so
\* what later calls get from it) as the first left them.
C7_ResetIdempotent ==
    [][ ( /\ last.op = "reset" /\ last'.op = "reset"
          /\ last'.args = last.args
          /\ (Len(last.calls) = 2 /\ Len(last'.calls) = 2)
                 => last'.calls[2].ret.ret = last.calls[2].ret.ret )
        => /\ last'.result = last.result
           /\ prepared' = prepared
           /\ rollup_config' = rollup_config
           /\ attributes' = attributes
           /\ l2_chain_provider' = l2_chain_provider
      ]_vars

\* The second of two equal successful resets, served from the cache.
C7_Witness ==
    /\ last.op = "reset" /\ last.repeat
    /\ last.result.ok /\ last.rpcs = <<>>
    /\ prepared # <<>>

\* C8: a step's failure comes from the stage stack's answers in that very
\* step, whatever failed before: a step to which next_attributes answers with
\* an attribute set returns PreparedAttributes and has it at the back of the
\* queue, also after a failed step and a reset; StepFailed is returned only on
\* a non-Eof error of next_attributes, OriginAdvanceErr only on an error of
\* advance_origin.
C8_NoFailureLatch ==
    last.op = "step" =>
        /\ last.calls[1].ret.ok =>
            /\ last.result.tag = "PreparedAttributes"
            /\ prepared # <<>>
            /\ prepared[Len(prepared)] = last.calls[1].ret.val
        /\ last.result.tag = "StepFailed" =>
               (~last.calls[1].ret.ok /\ last.calls[1].ret.err # "Eof")
        /\ last.result.tag = "OriginAdvanceErr" =>
               (Len(last.calls) = 2 /\ ~last.calls[2].ret.ok)

\* A step failed, a reset succeeded, and the step after it prepared attributes.
C8_Witness ==
    /\ last.op = "step" /\ last.after = "reset"
    /\ last.result.tag = "PreparedAttributes"

\* C9: peek returns the head of the prepared queue, None iff the queue is
\* empty, and changes nothing of the driver; a next called right after a peek
\* returns what the peek returned.
C9_PeekReadsHead ==
    [][ /\ last'.op = "peek" =>
            /\ last'.result =
                   (IF prepared = <<>> THEN None ELSE Some(Head(prepared)))
            /\ prepared' = prepared
            /\ attributes' = attributes
            /\ rollup_config' = rollup_config
            /\ l2_chain_provider' = l2_chain_provider
        /\ (last.op = "peek" /\ last'.op = "next") =>
               last'.result = last.result
      ]_vars

\* The second of two peeks in a row on a queue of two.
C9_Witness ==
    /\ last.op = "peek" /\ last.repeat
    /\ last.result.some /\ Len(prepared) = 2

\* The seven caches of the two providers.
Caches ==
    <<header_by_hash_cache, block_info_by_number_cache,
      receipts_by_hash_cache, block_info_and_transactions_by_hash_cache,
      payload_by_number_cache, l2_block_info_by_number_cache,
      system_config_by_number_cache>>

\* C10: after any sequence of provider operations each of the seven caches
\* (four of the L1 provider, three of the L2 provider) holds at most
\* CACHE_SIZE = 16 entries.
C10_CachesBounded ==
    \A i \in DOMAIN Caches : Len(Caches[i]) <= CACHE_SIZE

\* Every cache is full and has dropped the first block it once held, and the
\* call just made fetched from the node and stored at capacity.
C10_Witness ==
    /\ \A i \in DOMAIN Caches : Len(Caches[i]) = CACHE_SIZE
    /\ ~LruContains(header_by_hash_cache, Hash(2))
    /\ ~LruContains(block_info_by_number_cache, 2)
    /\ ~LruContains(receipts_by_hash_cache, Hash(2))
    /\ ~LruContains(block_info_and_transactions_by_hash_cache, Hash(2))
    /\ ~LruContains(payload_by_number_cache, 2)
    /\ ~LruContains(l2_block_info_by_number_cache, 3)
    /\ ~LruContains(system_config_by_number_cache, 3)
    /\ last.op \in Methods
    /\ last.result.ok
    /\ last.rpcs # <<>>

\* C11: with a node that answers each (method, argument) with a fixed value,
\* every provider operation returns, for given inputs, the same result
\* whatever the caches hold: the result of a provider with no cache.
C11_CacheIsTransparent ==
    last.op \in Methods => last.result = Uncached(last.op, last.args)

\* C20: system_config_by_number(n, cfg) returns the system config derived
\* from the payload of block n with the rollup config cfg passed to that very
\* call, for every call, whatever calls were made before it.
C20_SystemConfigUsesCallConfig ==
    last.op = "system_config_by_number" =>
        LET payload == PayloadByNumber(<<>>, last.args[1]).ret
        IN  payload.ok => last.result = ToSystemConfig(payload.val, last.args[2])

\* C12 (as stated): if a call with argument x succeeded and fewer than 16
\* other distinct keys have been inserted into that operation's cache since, a
\* second call with the same x returns the same value without any RPC request.
C12_HitWhileFewInserted ==
    (/\ watch.set
     /\ last.op = "header_by_hash"
     /\ last.args = <<Hash(watch.block)>>
     /\ watch.seen_inserted < CACHE_SIZE)
        => last.rpcs = <<>> /\ last.result = watch.ret

\* C12 (amended): if a call with argument x succeeded and fewer than 16 other
\* distinct keys have been used in that operation's cache since (returned from
\* it by a hit, or inserted), a second call with the same x returns the same
\* value without any RPC request.
C12_HitWhileFewUsed ==
    (/\ watch.set
     /\ last.op = "header_by_hash"
     /\ last.args = <<Hash(watch.block)>>
     /\ watch.seen_used < CACHE_SIZE)
        => last.rpcs = <<>> /\ last.result = watch.ret

\* The noted header was asked for again after 15 other keys had been used, in a
\* full cache, and came from the cache.
C12_Witness ==
    /\ watch.set
    /\ last.op = "header_by_hash"
    /\ last.args = <<Hash(watch.block)>>
    /\ watch.seen_used = CACHE_SIZE - 1
    /\ Len(header_by_hash_cache) = CACHE_SIZE
    /\ last.rpcs = <<>>
    /\ last.result = watch.ret

\* A raw item that is a receipt in one of the two encodings.
C13_Encodings(id) ==
    {EncodedReceipt(id)} \cup {<<t>> \o EncodedReceipt(id) : t \in 0..3}

\* C13: receipts_by_hash decodes every raw receipt debug_getRawReceipts
\* returned, in both encodings: a typed envelope (first byte a transaction type
\* <= 0x03) by skipping that one byte, a legacy receipt by skipping nothing;
\* the returned list has one receipt per raw item, in the same order, and a
\* single undecodable item makes the whole call fail.
C13_ReceiptsDecoded ==
    (last.op = "receipts_by_hash" /\ last.rpcs # <<>> /\ last.rpcs[1].ret.ok)
        => LET raws == last.rpcs[1].ret.val
           IN  IF \A i \in DOMAIN raws :
                      \E id \in 0..(MaxBlock + 4) : raws[i] \in C13_Encodings(id)
               THEN /\ last.result.ok
                    /\ Len(last.result.val) = Len(raws)
                    /\ \A i \in DOMAIN raws :
                           raws[i] \in C13_Encodings(last.result.val[i].id)
               ELSE ~last.result.ok

\* A block with three receipts, typed and legacy, was decoded.
C13_Witness ==
    /\ last.op = "receipts_by_hash"
    /\ last.rpcs # <<>>
    /\ last.result.ok
    /\ Len(last.result.val) = 3
    /\ \E i, j \in DOMAIN last.rpcs[1].ret.val :
           /\ last.rpcs[1].ret.val[i][1] = 193
           /\ last.rpcs[1].ret.val[j][1] <= 3

\* C14: in native mode, whenever the client child process exits with a
\* non-zero status, start_server_and_native_client returns an error, whatever
\* the interleaving of the server task and the client-program task; it returns
\* Ok only on a clean shutdown in which the client exited successfully.
C14_ClientFailureIsReported ==
    host.mode = "native" =>
        /\ host.child = "exit1" => host.result \in {"none", "err"}
        /\ host.result = "ok" => host.child = "exit0"

\* C15: start_server_and_native_client executes the preimage-server task and
\* the client-program task and returns only after both of them have completed.
C15_ReturnsAfterBothTasks ==
    (host.mode = "native" /\ host.server_task # "none"
     /\ host.result # "none")
        => Finished = {"server_task", "program_task"}

\* C16: a panic inside the preimage server is caught at the top level of the
\* host and converted into a returned error, in both entry points: it never
\* unwinds out of the entry point and the host never returns Ok after it.
C16_ServerPanicIsCaught ==
    host.server = "panicked" => host.result \in {"none", "err"}

\* C17: in both entry points the fetcher is created if and only if the host
\* is online: offline, the preimage server is constructed with no fetcher and
\* no RPC or beacon provider is created; online, it is constructed with a
\* fetcher.
C17_FetcherIffOnline ==
    /\ host.server_built =>
           host.fetcher = (IF host.cfg.offline THEN "None" ELSE "Some")
    /\ host.fetcher = "Some" => ~host.cfg.offline /\ host.providers
    /\ (host.mode # "none" /\ host.cfg.offline) => ~host.providers

\* The native-mode server was constructed with a fetcher by an online host.
C17_Witness ==
    /\ host.mode = "native"
    /\ host.server_built
    /\ ~host.cfg.offline
    /\ host.fetcher = "Some"
    /\ host.providers

\* C18: step reports StageError::Eof to its caller when the pipeline is
\* blocked waiting for new L1 data (the stage stack has drained its input and
\* there is no further L1 data to advance to), and only then; any other error
\* it reports is an error of the stage stack other than Eof, handed on as it
\* is (critical: the caller has to reset).
C18_EofMeansBlockedOnL1 ==
    last.op = "step" =>
        LET na == last.calls[1].ret
            asked == Len(last.calls) = 2
            blocked == /\ ~na.ok /\ na.err = "Eof"
                       /\ asked
                       /\ last.calls[2].fn = "advance_origin"
                       /\ ~last.calls[2].ret.ok
                       /\ last.calls[2].ret.err = "Eof"
        IN  /\ last.result.err = "Eof" <=> blocked
            /\ last.result.err \notin {"none", "Eof"} =>
                   /\ last.result.err \in OtherStageErrors
                   /\ last.result.tag \in {"StepFailed", "OriginAdvanceErr"}
                   /\ last.calls[Len(last.calls)].ret = Err(last.result.err)

\* A step found the stage stack drained and no L1 block to advance to.
C18_Witness ==
    /\ last.op = "step"
    /\ last.result = StepResult("OriginAdvanceErr", "Eof")
    /\ Len(last.calls) = 2

C21_ResetKeepsPrepared ==
    [][ /\ last'.op = "reset" => prepared' = prepared
        /\ (last.op = "reset" /\ last'.op = "next" /\ prepared # <<>>)
               => last'.result = Some(Head(prepared))
      ]_vars

\* A reset has failed in the stage stack with two attribute sets prepared.
C21_Witness ==
    /\ last.op = "reset"
    /\ Len(last.calls) = 2
    /\ ~last.result.ok
    /\ Len(prepared) = 2

\* C22: the prepared queue changes only through a step that returns
\* PreparedAttributes and through next on a non-empty queue: a step returning
\* AdvancedOrigin, OriginAdvanceErr or StepFailed leaves it unchanged, next on
\* an empty queue returns None and leaves it unchanged, and each step calls
\* next_attributes exactly once.
C22_PreparedChangesOnlyByStepAndNext ==
    [][ /\ prepared' # prepared =>
               \/ last'.op = "step" /\ last'.result.tag = "PreparedAttributes"
               \/ last'.op = "next" /\ prepared # <<>>
        /\ (last'.op = "step" /\ last'.result.tag # "PreparedAttributes") =>
               /\ last'.result.tag \in
                      {"AdvancedOrigin", "OriginAdvanceErr", "StepFailed"}
               /\ prepared' = prepared
        /\ (last'.op = "next" /\ prepared = <<>>) =>
               last'.result = None /\ prepared' = <<>>
        /\ last'.op = "step" =>
               Cardinality({i \in DOMAIN last'.calls :
                               last'.calls[i].fn = "next_attributes"}) = 1
      ]_vars

\* A step has advanced the origin with an attribute set prepared.
C22_Witness ==
    /\ last.op = "step"
    /\ last.result.tag = "AdvancedOrigin"
    /\ prepared # <<>>

\* C23: if the L2 chain provider fails to return the system config during
\* reset, reset returns that error and the stage stack's reset is never
\* invoked: the stage stack and the prepared queue are left exactly as they
\* were before the call.
C23_ProviderFailureStopsReset ==
    [][ (last'.op = "reset" /\ ~last'.calls[1].ret.ret.ok) =>
            /\ last'.result = Err(last'.calls[1].ret.ret.err)
            /\ \A i \in DOMAIN last'.calls : last'.calls[i].fn # "reset"
            /\ attributes' = attributes
            /\ prepared' = prepared
      ]_vars

\* A reset has failed in the provider, the stage stack past its first origin
\* and an attribute set prepared.
C23_Witness ==
    /\ last.op = "reset"
    /\ Len(last.calls) = 1
    /\ ~last.result.ok
    /\ attributes.origin > 0
    /\ prepared # <<>>

\* The result cache of each of the seven methods.
OwnCache(m) ==
    CASE m = "header_by_hash" -> header_by_hash_cache
      [] m = "block_info_by_number" -> block_info_by_number_cache
      [] m = "receipts_by_hash" -> receipts_by_hash_cache
      [] m = "block_info_and_transactions_by_hash" ->
             block_info_and_transactions_by_hash_cache
      [] m = "payload_by_number" -> payload_by_number_cache
      [] m = "l2_block_info_by_number" -> l2_block_info_by_number_cache
      [] m = "system_config_by_number" -> system_config_by_number_cache

\* The two methods that fetch their block through payload_by_number.
ThroughPayload == {"l2_block_info_by_number", "system_config_by_number"}

\* A failing call leaves the cache of its method as it was.
FailureInsertsNothing ==
    \A m \in Methods :
        (last'.op = m /\ ~last'.result.ok) => OwnCache(m)' = OwnCache(m)

\* Every entry a call adds to the cache of a method is the Ok value that
\* method has just returned for that key: the call's own result, or, in the
\* payload cache, the result of the payload_by_number call made inside
\* l2_block_info_by_number or system_config_by_number.
EntriesAreReturnedOkValues ==
    \A m \in Methods :
        \A i \in DOMAIN OwnCache(m)' :
            LET e == OwnCache(m)'[i]
            IN  (\A j \in DOMAIN OwnCache(m) : OwnCache(m)[j] # e) =>
                    /\ e.k = last'.args[1]
                    /\ \/ last'.op = m /\ last'.result = Ok(e.v)
                       \/ /\ m = "payload_by_number"
                          /\ last'.op \in ThroughPayload
                          /\ PayloadByNumber(payload_by_number_cache, e.k).ret
                                 = Ok(e.v)

\* The call just made is the call made before it, which had failed.
SameCallAfterFailure ==
    /\ last.op \in Methods
    /\ ~last.result.ok
    /\ last'.op = last.op
    /\ last'.args = last.args

\* The call just made found the payload of its block in the payload cache and
\* returned what the conversion makes of it.
ConvertedCachedPayload ==
    /\ last'.op \in ThroughPayload
    /\ LruContains(payload_by_number_cache, last'.args[1])
    /\ LET payload == LruPeek(payload_by_number_cache, last'.args[1])
       IN  last'.result =
               IF last'.op = "system_config_by_number"
               THEN ToSystemConfig(payload, last'.args[2])
               ELSE ToL2BlockRef(payload, ProviderConfig)

\* C24, as claimed: a chain-provider operation that returns an error inserts
\* nothing into its own result cache, every entry of a cache is the Ok value
\* an earlier call of that operation returned for that key, and a later call
\* with the same argument sends the RPC request again.
C24_FailureRetriesRpc ==
    [][ /\ FailureInsertsNothing
        /\ EntriesAreReturnedOkValues
        /\ SameCallAfterFailure => last'.rpcs # <<>>
      ]_vars

\* C24, amended: a chain-provider operation that returns an error inserts
\* nothing into its own result cache, every entry of a cache is the Ok value
\* an earlier call of that operation returned for that key, and a later call
\* with the same argument does the work again: it sends the RPC request
\* again, or, where the failure was a conversion failure and the payload is
\* still in the payload cache, it converts the cached payload again.
C24_FailureIsNotCached ==
    [][ /\ FailureInsertsNothing
        /\ EntriesAreReturnedOkValues
        /\ SameCallAfterFailure =>
               last'.rpcs # <<>> \/ ConvertedCachedPayload
      ]_vars

\* system_config_by_number has failed twice running on a block with no L1
\* info: the second call converted the cached payload, without a request, and
\* the system config cache has no entry for the block.
C24_Witness ==
    /\ last.op = "system_config_by_number"
    /\ last.repeat
    /\ ~last.result.ok
    /\ last.rpcs = <<>>
    /\ last.errs = <<<<"l2_chain_provider", "system_config_by_number",
                       "to_system_config">>>>
    /\ LruContains(payload_by_number_cache, last.args[1])
    /\ ~LruContains(system_config_by_number_cache, last.args[1])

\* The label sets of PROVIDER_ERRORS the last call incremented under method m.
ErrorsOf(m) == {i \in DOMAIN last.errs : last.errs[i][2] = m}

\* The label sets the last call incremented with phase ph.
ErrorsIn(ph) == {i \in DOMAIN last.errs : last.errs[i][3] = ph}

\* The last call sent a request that the transport failed.
TransportFailed ==
    /\ last.rpcs # <<>>
    /\ ~last.rpcs[Len(last.rpcs)].ret.ok

\* The last call got bytes from the node that did not parse.
ParsingFailed ==
    /\ last.rpcs # <<>>
    /\ last.rpcs[Len(last.rpcs)].ret.ok
    /\ last.result = Err("rlp")

\* C25: every failing chain-provider call is attributed to exactly one phase,
\* and the RPC phase and the decode phase are distinguishable: a transport
\* failure is recorded under the RPC method's name and a parsing failure under
\* "decode", never both and never neither, and a successful call records no
\* error.  (A call made through payload_by_number is two calls: the inner
\* payload_by_number and the method that made it, each with one phase.)
C25_OnePhasePerFailure ==
    last.op \in Methods =>
        /\ last.result.ok => last.errs = <<>>
        /\ ~last.result.ok =>
               /\ Cardinality(ErrorsOf(last.op)) = 1
               /\ \A i \in DOMAIN last.errs :
                      /\ last.errs[i][2] \in {last.op, "payload_by_number"}
                      /\ Cardinality(ErrorsOf(last.errs[i][2])) = 1
                      /\ last.errs[i][1] =
                             IF last.op \in ThroughPayload
                                    \cup {"payload_by_number"}
                             THEN "l2_chain_provider" ELSE "chain_provider"
               /\ TransportFailed =>
                      /\ Cardinality(
                             ErrorsIn(last.rpcs[Len(last.rpcs)].fn)) = 1
                      /\ ErrorsIn("decode") = {}
               /\ ParsingFailed =>
                      /\ Cardinality(ErrorsIn("decode")) = 1
                      /\ ErrorsIn(last.rpcs[Len(last.rpcs)].fn) = {}
               /\ (~TransportFailed /\ ~ParsingFailed) =>
                      /\ last.op \in ThroughPayload
                      /\ last.errs[1][3] \in
                             {"to_l2_block_ref", "to_system_config"}

\* header_by_hash has got a header from the node that does not decode, and
\* recorded it under "decode" alone.
C25_Witness ==
    /\ last.op = "header_by_hash"
    /\ ParsingFailed
    /\ last.errs = <<<<"chain_provider", "header_by_hash", "decode">>>>

\* The call just made had the payload of its block at hand: from the payload
\* cache, or from a request the node answered with a block that decodes.
PayloadObtained ==
    \/ last'.rpcs = <<>>
    \/ /\ last'.rpcs[1].ret.ok
       /\ OpBlockDecode(last'.rpcs[1].ret.val).ok

\* C26: l2_block_info_by_number(n) and system_config_by_number(n, cfg) obtain
\* the block through payload_by_number(n): a miss in their own cache sends at
\* most one debug_getRawBlock request, for n, and leaves the payload of n in
\* the payload cache once it was obtained, also when the conversion then
\* fails; and while the payload of n is in the payload cache,
\* payload_by_number(n), l2_block_info_by_number(n) and
\* system_config_by_number(n, cfg) send no request.
C26_BlockThroughPayloadCache ==
    [][ /\ \A m \in ThroughPayload :
               (last'.op = m /\ ~LruContains(OwnCache(m), last'.args[1])) =>
                   /\ Len(last'.rpcs) <= 1
                   /\ \A i \in DOMAIN last'.rpcs :
                          /\ last'.rpcs[i].fn = "debug_getRawBlock"
                          /\ last'.rpcs[i].arg = last'.args[1]
                   /\ PayloadObtained =>
                          LruContains(payload_by_number_cache',
                                      last'.args[1])
        /\ ( /\ last'.op \in ThroughPayload \cup {"payload_by_number"}
             /\ LruContains(payload_by_number_cache, last'.args[1]) )
               => last'.rpcs = <<>>
      ]_vars

\* l2_block_info_by_number has missed, fetched a block with one request and
\* failed to convert it: the payload is in the payload cache and the block
\* info cache has no entry for the block.
C26_Witness ==
    /\ last.op = "l2_block_info_by_number"
    /\ Len(last.rpcs) = 1
    /\ last.rpcs[1].ret.ok
    /\ last.result = Err("no_l1_info")
    /\ LruContains(payload_by_number_cache, last.args[1])
    /\ ~LruContains(l2_block_info_by_number_cache, last.args[1])

====
